---------------------------- MODULE Spec2Model ----------------------------
(***************************************************************************)
(* Ownership and lifetime of the values handled in smartptr.cpp.           *)
(*                                                                         *)
(* A value created by make_shared lives in a slot together with its        *)
(* control block.  The control block carries the number of shared_ptr      *)
(* owners (strong_count, what use_count() prints), the number of weak_ptr  *)
(* observers (weak_count) and the one reference the owners hold together   *)
(* on the control block itself (owners_ref).  The heap also counts, per    *)
(* slot, how often the destructor of the value ran (destroyed) and how     *)
(* often the control block was freed (cb_released): both are 0 or 1 in a   *)
(* correct program, and the properties below say so.                       *)
(***************************************************************************)
EXTENDS Integers, Sequences, FiniteSets, TLC

(* Bounds of the model. *)
MaxSlots == 2

MaxStrong == 2

MaxWeak == 1

(* The threads main starts (t1 and t2 in threadSafetyExample). *)
MaxThreads == 2

(* The unique_ptr variables and the values they can own. *)
MaxUnique == 2

MaxValues == 2

(* The moves of one value that are told apart. *)
MaxMoves == 2

(* The keys of the resource cache. *)
MaxKeys == 2

(* The entries Subject::observers can hold. *)
MaxObservers == 2

Slots == 1..MaxSlots

StrongIds == 1..MaxStrong

WeakIds == 1..MaxWeak

MainThread == 0

Workers == 1..MaxThreads

Threads == {MainThread} \cup Workers

UniqueIds == 1..MaxUnique

UValues == 1..MaxValues

Keys == 1..MaxKeys

(* An empty handle refers to no control block. *)
Empty == 0

(* The ids the examples give their widgets (sharedPtrExample, weakPtrExample). *)
WidgetIds == {3, 50}

(* The two node types of cycleDemo; every other value is a "Widget". *)
NodeKinds == {"NodeShared", "NodeWeak"}

VARIABLES
    heap,      \* the slots: control blocks and values
    ext,       \* the named shared_ptr variables of the running function
    weak,      \* the named weak_ptr variables of the running function
    lastCall,  \* the operation executed last, with its operands
    linked,    \* per node, the node its next field was last assigned
    threads,   \* threadSafetyExample: main (0) and the threads it starts
    own,       \* the unique_ptr variables and the values they own
    cache,     \* ResourceCache::cache: per key, the weak_ptr stored
    subject    \* Subject::observers, and what the last notify() greeted

appVars == <<own, cache, subject>>

vars == <<heap, ext, weak, lastCall, linked, threads, own, cache, subject>>

(* A shared_ptr variable: the control block it shares, and whether its      *)
(* stored pointer is the whole value or the member `id` (aliasing).         *)
EmptyHandle == [cb |-> Empty, sub |-> FALSE]

OwnerHandle(s) == [cb |-> s, sub |-> FALSE]

MemberHandle(s) == [cb |-> s, sub |-> TRUE]

InitHeap ==
    [ allocated    |-> [s \in Slots |-> FALSE],
      strong_count |-> [s \in Slots |-> 0],
      weak_count   |-> [s \in Slots |-> 0],
      owners_ref   |-> [s \in Slots |-> FALSE],
      destroyed    |-> [s \in Slots |-> 0],
      cb_released  |-> [s \in Slots |-> 0],
      value        |-> [s \in Slots |-> 0],
      kind         |-> [s \in Slots |-> "Widget"],
      name         |-> [s \in Slots |-> Empty],
      dtor_log     |-> <<>>,
      next         |-> [s \in Slots |-> Empty],
      wnext        |-> [s \in Slots |-> Empty] ]

(* make_shared never reuses a slot that is still allocated; the model hands *)
(* out the slots in order and never reuses one, so that the counters of a   *)
(* slot tell the whole history of one value.                                *)
HasFreeSlot(hp) == \E s \in Slots : ~hp.allocated[s]

FreshSlot(hp) ==
    CHOOSE s \in Slots : ~hp.allocated[s] /\ \A t \in Slots : t < s => hp.allocated[t]

(* make_shared<T>(id): one allocation, use_count 1, no observers. *)
NewShared(hp, s, k, id) ==
    [hp EXCEPT !.allocated[s] = TRUE,
               !.strong_count[s] = 1,
               !.weak_count[s] = 0,
               !.owners_ref[s] = TRUE,
               !.value[s] = id,
               !.kind[s] = k]

(* use_count() *)
UseCount(hp, s) == hp.strong_count[s]

(* Copying a shared_ptr adds one owner. *)
AddStrong(hp, s) == [hp EXCEPT !.strong_count[s] = @ + 1]

(* Constructing a weak_ptr from a shared_ptr adds one observer. *)
AddWeak(hp, s) == [hp EXCEPT !.weak_count[s] = @ + 1]

(* A control block freed by the last owner although observers remain. *)
FreeControlBlockEarly(hp, s) ==
    IF ~hp.owners_ref[s]
    THEN [hp EXCEPT !.cb_released[s] = @ + 1]
    ELSE hp

(* The control block is freed when the last reference to it goes: no        *)
(* observer is left and the owners have dropped theirs.                     *)
FreeControlBlock(hp, s) ==
    IF hp.weak_count[s] = 0 /\ ~hp.owners_ref[s]
    THEN [hp EXCEPT !.cb_released[s] = @ + 1]
    ELSE hp

(* Destroying or resetting a weak_ptr removes one observer. *)
ReleaseWeak(hp, s) ==
    FreeControlBlock([hp EXCEPT !.weak_count[s] = @ - 1], s)

(* The destructor of the value: its body runs (the "destroyed" trace line). *)
RunDestructor(hp, s) ==
    [hp EXCEPT !.destroyed[s] = @ + 1, !.value[s] = 0]

(* A release that compares the count after the decrement with 1: the       *)
(* value is destroyed while one owner is left.                              *)
ReleaseStrongOffByOne(hp, s) ==
    LET h1 == [hp EXCEPT !.strong_count[s] = @ - 1]
    IN  IF h1.strong_count[s] # 1
        THEN h1
        ELSE FreeControlBlock([RunDestructor(h1, s) EXCEPT !.owners_ref[s] = FALSE], s)

(* Destroying or resetting a shared_ptr removes one owner.  The owner that  *)
(* brings use_count to 0 destroys the value: the destructor body runs, then *)
(* the members are destroyed (a NodeShared releases its next, a NodeWeak    *)
(* its weak next), then the owners' reference on the control block goes.    *)
RECURSIVE ReleaseStrong(_, _)
ReleaseStrong(hp, s) ==
    LET h1 == [hp EXCEPT !.strong_count[s] = @ - 1]
    IN  IF h1.strong_count[s] # 0
        THEN h1
        ELSE LET h2 == RunDestructor(h1, s)
                 n  == h2.next[s]
                 h3 == IF n = Empty THEN h2
                       ELSE ReleaseStrong([h2 EXCEPT !.next[s] = Empty], n)
                 w  == h3.wnext[s]
                 h4 == IF w = Empty THEN h3
                       ELSE ReleaseWeak([h3 EXCEPT !.wnext[s] = Empty], w)
             IN  FreeControlBlock([h4 EXCEPT !.owners_ref[s] = FALSE], s)

(* weak_ptr::expired(): use_count() == 0.  An empty weak_ptr is expired. *)
Expired(hp, s) == IF s = Empty THEN TRUE ELSE UseCount(hp, s) = 0

(* A lock() that looks only at the handle, not at use_count. *)
CanLockAlways(hp, s) == s # Empty

(* weak_ptr::lock(): a new owner when the value is alive, else nothing. *)
CanLock(hp, s) == ~Expired(hp, s)

(* What one thread holds: its shared_ptr (main's `shared`, a thread's       *)
(* captured copy), a weak_ptr, the result of lock(), the use_count it read *)
(* last, where it stands and, for main, whether it has joined the threads  *)
(* and the final use_count it printed then.                                 *)
ThreadState(pc) ==
    [pc |-> pc, held |-> Empty, observer |-> Empty, promoted |-> Empty,
     seen |-> 0, joined |-> FALSE, final |-> 0]

MainStart == ThreadState("start")

WorkerIdle == ThreadState("idle")

(* A unique_ptr variable: the value it owns and its deleter type           *)
(* (default_delete, or the custom deleter of uniquePtrExample/FileCloser). *)
Deleters == {"default", "custom"}

UniqueHandle(v, d) == [val |-> v, del |-> d]

(* No unique_ptr exists yet; per value, whether it was constructed and what *)
(* happened to it at its end: "deleter" (the custom deleter was invoked),   *)
(* "destructor" (~Widget ran), "free" (its storage was released); how often *)
(* it changed hands (counted up to MaxMoves); and how often a deleter was   *)
(* invoked on a null pointer.                                               *)
InitOwn ==
    [ ptr       |-> [h \in UniqueIds |-> UniqueHandle(Empty, "default")],
      made      |-> [v \in UValues |-> FALSE],
      events    |-> [v \in UValues |-> <<>>],
      moves     |-> [v \in UValues |-> 0],
      nullCalls |-> 0 ]

InitSubject == [observers |-> <<>>, greeted |-> <<>>, erased |-> 0]

Call(op, a, b) == [op |-> op, a |-> a, b |-> b]

Init ==
    /\ heap = InitHeap
    /\ ext = [h \in StrongIds |-> EmptyHandle]
    /\ weak = [w \in WeakIds |-> Empty]
    /\ lastCall = Call("none", 0, 0)
    /\ linked = [s \in Slots |-> Empty]
    /\ threads = [t \in Threads |-> IF t = MainThread THEN MainStart ELSE WorkerIdle]
    /\ own = InitOwn
    /\ cache = [k \in Keys |-> Empty]
    /\ subject = InitSubject

(* shared_ptr<Widget> sp1 = make_shared<Widget>(id, ...) *)
MakeShared(h, id) ==
    /\ ext[h].cb = Empty
    /\ HasFreeSlot(heap)
    /\ LET s == FreshSlot(heap)
       IN  /\ heap' = NewShared(heap, s, "Widget", id)
           /\ ext' = [ext EXCEPT ![h] = OwnerHandle(s)]
    /\ lastCall' = Call("make_shared", h, id)
    /\ UNCHANGED <<weak, linked, threads, appVars>>

(* A copy that takes the pointer and forgets the count. *)
CopyNoCount(g, h) ==
    /\ g # h
    /\ ext[g].cb # Empty
    /\ ext[h].cb = Empty
    /\ ext' = [ext EXCEPT ![h] = ext[g]]
    /\ lastCall' = Call("copy", g, h)
    /\ UNCHANGED <<heap, weak, linked, threads, appVars>>

(* shared_ptr<Widget> sp2 = sp1: the new variable gets the stored pointer   *)
(* and the control block of the source.                                     *)
Copy(g, h) ==
    /\ g # h
    /\ ext[g].cb # Empty
    /\ ext[h].cb = Empty
    /\ heap' = AddStrong(heap, ext[g].cb)
    /\ ext' = [ext EXCEPT ![h] = ext[g]]
    /\ lastCall' = Call("copy", g, h)
    /\ UNCHANGED <<weak, linked, threads, appVars>>

(* sp1.reset(), or the variable leaving its scope; nothing happens to an    *)
(* empty variable.                                                          *)
Reset(h) ==
    /\ heap' = IF ext[h].cb = Empty THEN heap ELSE ReleaseStrong(heap, ext[h].cb)
    /\ ext' = [ext EXCEPT ![h] = EmptyHandle]
    /\ lastCall' = Call("reset", h, ext[h].cb)
    /\ UNCHANGED <<weak, linked, threads, appVars>>

(* An observer that counts as an owner. *)
ObserveOwning(h, w) ==
    /\ ext[h].cb # Empty
    /\ weak[w] = Empty
    /\ heap' = AddStrong(heap, ext[h].cb)
    /\ weak' = [weak EXCEPT ![w] = ext[h].cb]
    /\ lastCall' = Call("observe", h, w)
    /\ UNCHANGED <<ext, linked, threads, appVars>>

(* weak_ptr<Widget> wp = sp *)
Observe(h, w) ==
    /\ ext[h].cb # Empty
    /\ weak[w] = Empty
    /\ heap' = AddWeak(heap, ext[h].cb)
    /\ weak' = [weak EXCEPT ![w] = ext[h].cb]
    /\ lastCall' = Call("observe", h, w)
    /\ UNCHANGED <<ext, linked, threads, appVars>>

(* A lock() that hands out the pointer without becoming an owner. *)
LockNoCount(w, h) ==
    /\ ext[h].cb = Empty
    /\ IF CanLock(heap, weak[w])
       THEN ext' = [ext EXCEPT ![h] = OwnerHandle(weak[w])]
       ELSE UNCHANGED ext
    /\ lastCall' = Call("lock", w, h)
    /\ UNCHANGED <<heap, weak, linked, threads, appVars>>

(* auto locked = wp.lock() *)
Lock(w, h) ==
    /\ ext[h].cb = Empty
    /\ IF CanLock(heap, weak[w])
       THEN /\ heap' = AddStrong(heap, weak[w])
            /\ ext' = [ext EXCEPT ![h] = OwnerHandle(weak[w])]
       ELSE UNCHANGED <<heap, ext>>
    /\ lastCall' = Call("lock", w, h)
    /\ UNCHANGED <<weak, linked, threads, appVars>>

(* The weak_ptr variable leaves its scope. *)
WeakReset(w) ==
    /\ weak[w] # Empty
    /\ heap' = ReleaseWeak(heap, weak[w])
    /\ weak' = [weak EXCEPT ![w] = Empty]
    /\ lastCall' = Call("weak_reset", w, weak[w])
    /\ UNCHANGED <<ext, linked, threads, appVars>>

(* A shared_ptr to the member that does not share the widget's ownership. *)
AliasNoCount(g, h) ==
    /\ g # h
    /\ ext[g].cb # Empty
    /\ ext[h].cb = Empty
    /\ ext' = [ext EXCEPT ![h] = MemberHandle(ext[g].cb)]
    /\ lastCall' = Call("alias", g, h)
    /\ UNCHANGED <<heap, weak, linked, threads, appVars>>

(* shared_ptr<int> idPtr(widget, &widget->id): shares the ownership of the  *)
(* widget, points to its member.                                            *)
Alias(g, h) ==
    /\ g # h
    /\ ext[g].cb # Empty
    /\ ext[h].cb = Empty
    /\ heap' = AddStrong(heap, ext[g].cb)
    /\ ext' = [ext EXCEPT ![h] = MemberHandle(ext[g].cb)]
    /\ lastCall' = Call("alias", g, h)
    /\ UNCHANGED <<weak, linked, threads, appVars>>

Next ==
    \/ \E h \in StrongIds, id \in WidgetIds : MakeShared(h, id)
    \/ \E g, h \in StrongIds : Copy(g, h)
    \/ \E h \in StrongIds : Reset(h)
    \/ \E h \in StrongIds, w \in WeakIds : Observe(h, w)
    \/ \E w \in WeakIds, h \in StrongIds : Lock(w, h)
    \/ \E w \in WeakIds : WeakReset(w)
    \/ \E g, h \in StrongIds : Alias(g, h)

Spec == Init /\ [][Next]_vars

(***************************************************************************)
(* Properties of the shared and weak handles (specification Spec).         *)
(***************************************************************************)

(* The shared_ptr variables that share the control block of slot s. *)
LiveHandles(s) == {h \in StrongIds : ext[h].cb = s}

(* The weak_ptr variables that observe slot s. *)
LiveObservers(s) == {w \in WeakIds : weak[w] = s}

(* C1: in every reachable state the strong_count of a control block is the  *)
(* number of live shared handles that reference it.                         *)
C1_StrongCountIsHandleCount ==
    \A s \in Slots :
        heap.allocated[s] => UseCount(heap, s) = Cardinality(LiveHandles(s))

(* C1 witness: a copy has just been released and the count is 1 again. *)
C1_Witness ==
    /\ lastCall.op = "reset"
    /\ lastCall.b # Empty
    /\ UseCount(heap, lastCall.b) = 1
    /\ Cardinality(LiveHandles(lastCall.b)) = 1

(* C2, the state part: the destructor of an allocated value has run once    *)
(* when strong_count is 0 and not at all while strong_count > 0.            *)
C2_DestroyedIffCountZero ==
    \A s \in Slots :
        heap.allocated[s] =>
            heap.destroyed[s] = (IF heap.strong_count[s] = 0 THEN 1 ELSE 0)

(* C2, the step part: the destructor runs only in a step that takes         *)
(* strong_count from 1 to 0, and it runs once in that step.                 *)
C2_DestroyStep ==
    \A s \in Slots :
        heap'.destroyed[s] # heap.destroyed[s] =>
            /\ heap.strong_count[s] = 1
            /\ heap'.strong_count[s] = 0
            /\ heap.destroyed[s] = 0
            /\ heap'.destroyed[s] = 1

(* C2: for every sequence of copy, release and lock the destructor of a     *)
(* value fires exactly once, in the very step in which strong_count goes    *)
(* from 1 to 0.                                                             *)
C2_DestroyedExactlyOnce == []C2_DestroyedIffCountZero /\ [][C2_DestroyStep]_vars

(* C2 witness: the last owner has just been released while a weak handle    *)
(* observes the slot, and the value is destroyed once.                      *)
C2_Witness ==
    /\ lastCall.op = "reset"
    /\ lastCall.b # Empty
    /\ heap.strong_count[lastCall.b] = 0
    /\ heap.destroyed[lastCall.b] = 1
    /\ LiveObservers(lastCall.b) # {}

(* C5, the state part: a non-empty weak handle is expired exactly when no   *)
(* shared handle of its slot is live, which is when the value is destroyed. *)
C5_ExpiredIffNoOwner ==
    \A w \in WeakIds :
        weak[w] # Empty =>
            /\ Expired(heap, weak[w]) <=> (LiveHandles(weak[w]) = {})
            /\ Expired(heap, weak[w]) <=> (heap.destroyed[weak[w]] = 1)

(* C5, the step part: a weak handle that is expired stays expired. *)
C5_ExpiredStays ==
    \A w \in WeakIds :
        (weak[w] # Empty /\ weak'[w] = weak[w] /\ Expired(heap, weak[w]))
            => Expired(heap', weak[w])

(* C5: a weak handle reports not-expired while strong_count >= 1, expired   *)
(* from the step in which strong_count reaches 0, and expired ever after.   *)
C5_ExpiredPermanent == []C5_ExpiredIffNoOwner /\ [][C5_ExpiredStays]_vars

(* C5 witness: a new value was created while an expired weak handle exists. *)
C5_Witness ==
    /\ lastCall.op = "make_shared"
    /\ \E w \in WeakIds : weak[w] # Empty /\ Expired(heap, weak[w])

(* C6, the step part: what one lock() does. *)
C6_LockStep ==
    lastCall'.op = "lock" =>
        LET w == lastCall'.a
            h == lastCall'.b
            s == weak[w]
        IN  IF s # Empty /\ heap.strong_count[s] > 0
            THEN /\ ext'[h] = OwnerHandle(s)
                 /\ heap'.strong_count[s] = heap.strong_count[s] + 1
                 /\ heap'.value[s] = heap.value[s]
                 /\ heap'.value[s] \in WidgetIds
                 /\ heap'.destroyed[s] = 0
            ELSE /\ ext'[h] = EmptyHandle
                 /\ heap' = heap

(* C6, the state part: no shared handle refers to a destroyed value. *)
C6_NoDanglingHandle ==
    \A h \in StrongIds :
        ext[h].cb # Empty =>
            heap.destroyed[ext[h].cb] = 0 /\ heap.value[ext[h].cb] \in WidgetIds

(* C6: lock() on a live slot returns a handle to the unchanged value and    *)
(* raises strong_count by 1; on an expired slot it returns nothing, leaves  *)
(* strong_count at 0 and never yields a handle to a destroyed value.        *)
C6_LockAllOrNothing == [][C6_LockStep]_vars /\ []C6_NoDanglingHandle

(* C6 witness: a lock() has just succeeded. *)
C6_Witness ==
    /\ lastCall.op = "lock"
    /\ ext[lastCall.b].cb = weak[lastCall.a]
    /\ ext[lastCall.b].cb # Empty
    /\ heap.strong_count[ext[lastCall.b].cb] = 2

(* C9, the state part: an alias handle counts as an owner and its value is  *)
(* alive, also when it is the only handle left.                             *)
C9_AliasKeepsAlive ==
    \A h \in StrongIds :
        (ext[h].cb # Empty /\ ext[h].sub) =>
            /\ heap.destroyed[ext[h].cb] = 0
            /\ heap.strong_count[ext[h].cb] = Cardinality(LiveHandles(ext[h].cb))

(* C9, the step part: creating the alias adds one owner to the same control *)
(* block; releasing an alias destroys the whole value when it was the last  *)
(* owner and nothing otherwise.                                             *)
C9_AliasStep ==
    /\ lastCall'.op = "alias" =>
           LET s == ext[lastCall'.a].cb
           IN  /\ ext'[lastCall'.b] = MemberHandle(s)
               /\ heap'.strong_count[s] = heap.strong_count[s] + 1
               /\ heap'.allocated = heap.allocated
               /\ heap'.destroyed = heap.destroyed
    /\ (lastCall'.op = "reset" /\ ext[lastCall'.a].sub) =>
           LET s == ext[lastCall'.a].cb
           IN  /\ heap'.destroyed[s] = (IF LiveHandles(s) = {lastCall'.a} THEN 1 ELSE 0)
               /\ \A t \in Slots \ {s} : heap'.destroyed[t] = heap.destroyed[t]

(* C9: an alias takes part in the strong_count of its origin and alone      *)
(* keeps the whole value alive; the value is destroyed only when the alias  *)
(* too is released.                                                         *)
C9_AliasSharesOwnership == []C9_AliasKeepsAlive /\ [][C9_AliasStep]_vars

(* C9 witness: the other handle has just been released and the alias is the *)
(* only owner of a live value.                                              *)
C9_Witness ==
    /\ lastCall.op = "reset"
    /\ lastCall.b # Empty
    /\ heap.strong_count[lastCall.b] = 1
    /\ \E h \in StrongIds : ext[h] = MemberHandle(lastCall.b)

(* C10, the state part: the control block of an allocated slot has been     *)
(* freed once when no handle of either kind is left and not at all before.  *)
C10_ControlBlockState ==
    \A s \in Slots :
        heap.allocated[s] =>
            /\ heap.weak_count[s] = Cardinality(LiveObservers(s))
            /\ heap.cb_released[s] =
                   (IF heap.strong_count[s] = 0 /\ heap.weak_count[s] = 0 THEN 1 ELSE 0)
            /\ (LiveHandles(s) # {} \/ LiveObservers(s) # {}) => heap.cb_released[s] = 0

(* C10, the step part: the control block is freed by the release, strong or *)
(* weak, that brings both counts to 0.                                      *)
C10_ControlBlockStep ==
    \A s \in Slots :
        heap'.cb_released[s] # heap.cb_released[s] =>
            /\ heap.cb_released[s] = 0
            /\ heap'.cb_released[s] = 1
            /\ lastCall'.op \in {"reset", "weak_reset"}
            /\ lastCall'.b = s
            /\ heap.strong_count[s] + heap.weak_count[s] = 1
            /\ heap'.strong_count[s] = 0
            /\ heap'.weak_count[s] = 0

(* C10: the control block is released only when strong_count and weak_count *)
(* are both 0, exactly once, and stays readable while a weak handle exists. *)
C10_ControlBlockReleasedLast == []C10_ControlBlockState /\ [][C10_ControlBlockStep]_vars

(* C10 witness: the value is destroyed, a weak handle is left, the control  *)
(* block is not freed and lock() has just answered.                         *)
C10_Witness ==
    /\ lastCall.op = "lock"
    /\ weak[lastCall.a] # Empty
    /\ heap.destroyed[weak[lastCall.a]] = 1
    /\ heap.cb_released[weak[lastCall.a]] = 0
    /\ ext[lastCall.b] = EmptyHandle

(***************************************************************************)
(* The node graphs of cycleDemo (specification SpecCycle).                 *)
(***************************************************************************)

(* The values cycleDemo gives its nodes. *)
NodeValues(k) == IF k = "NodeShared" THEN {10, 20} ELSE {30, 40}

(* auto a = make_shared<NodeShared>(10) / make_shared<NodeWeak>(30): the    *)
(* next field of a new node is empty.                                       *)
MakeNode(h, k, v) ==
    /\ ext[h].cb = Empty
    /\ HasFreeSlot(heap)
    /\ LET s == FreshSlot(heap)
       IN  /\ heap' = NewShared(heap, s, k, v)
           /\ ext' = [ext EXCEPT ![h] = OwnerHandle(s)]
    /\ lastCall' = Call("make_node", h, v)
    /\ UNCHANGED <<weak, linked, threads, appVars>>

(* A next field that keeps a plain pointer and takes no ownership. *)
LinkSharedNoCount(g, h) ==
    /\ ext[g].cb # Empty /\ heap.kind[ext[g].cb] = "NodeShared"
    /\ ext[h].cb # Empty /\ heap.kind[ext[h].cb] = "NodeShared"
    /\ heap' = [heap EXCEPT !.next[ext[g].cb] = ext[h].cb]
    /\ linked' = [linked EXCEPT ![ext[g].cb] = ext[h].cb]
    /\ lastCall' = Call("link_shared", g, h)
    /\ UNCHANGED <<ext, weak, threads, appVars>>

(* a->next = b on NodeShared: next becomes one more owner of b, and the     *)
(* node next owned before loses that owner.                                 *)
LinkShared(g, h) ==
    /\ ext[g].cb # Empty /\ heap.kind[ext[g].cb] = "NodeShared"
    /\ ext[h].cb # Empty /\ heap.kind[ext[h].cb] = "NodeShared"
    /\ LET a   == ext[g].cb
           b   == ext[h].cb
           old == heap.next[a]
           h1  == [AddStrong(heap, b) EXCEPT !.next[a] = b]
       IN  /\ heap' = IF old = Empty THEN h1 ELSE ReleaseStrong(h1, old)
           /\ linked' = [linked EXCEPT ![a] = b]
    /\ lastCall' = Call("link_shared", g, h)
    /\ UNCHANGED <<ext, weak, threads, appVars>>

(* A NodeWeak whose next owns its target after all. *)
LinkWeakOwning(g, h) ==
    /\ ext[g].cb # Empty /\ heap.kind[ext[g].cb] = "NodeWeak"
    /\ ext[h].cb # Empty /\ heap.kind[ext[h].cb] = "NodeWeak"
    /\ LET a   == ext[g].cb
           b   == ext[h].cb
           old == heap.next[a]
           h1  == [AddStrong(heap, b) EXCEPT !.next[a] = b]
       IN  /\ heap' = IF old = Empty THEN h1 ELSE ReleaseStrong(h1, old)
           /\ linked' = [linked EXCEPT ![a] = b]
    /\ lastCall' = Call("link_weak", g, h)
    /\ UNCHANGED <<ext, weak, threads, appVars>>

(* a->next = b on NodeWeak: next becomes one more observer of b, and the    *)
(* node next observed before loses that observer.                           *)
LinkWeak(g, h) ==
    /\ ext[g].cb # Empty /\ heap.kind[ext[g].cb] = "NodeWeak"
    /\ ext[h].cb # Empty /\ heap.kind[ext[h].cb] = "NodeWeak"
    /\ LET a   == ext[g].cb
           b   == ext[h].cb
           old == heap.wnext[a]
           h1  == [AddWeak(heap, b) EXCEPT !.wnext[a] = b]
       IN  /\ heap' = IF old = Empty THEN h1 ELSE ReleaseWeak(h1, old)
           /\ linked' = [linked EXCEPT ![a] = b]
    /\ lastCall' = Call("link_weak", g, h)
    /\ UNCHANGED <<ext, weak, threads, appVars>>

NextCycle ==
    \/ \E h \in StrongIds, k \in NodeKinds :
           \E v \in NodeValues(k) : MakeNode(h, k, v)
    \/ \E g, h \in StrongIds : LinkShared(g, h)
    \/ \E g, h \in StrongIds : LinkWeak(g, h)
    \/ \E g, h \in StrongIds : Copy(g, h)
    \/ \E h \in StrongIds : Reset(h)

SpecCycle == Init /\ [][NextCycle]_vars

(* The nodes reached from s by following n strong next fields or fewer. *)
RECURSIVE StrongReach(_, _)
StrongReach(s, n) ==
    IF n = 0 \/ heap.next[s] = Empty
    THEN {}
    ELSE {heap.next[s]} \cup StrongReach(heap.next[s], n - 1)

(* s lies on a cycle of strong next fields; the cycle is what s reaches. *)
OnStrongCycle(s) == s \in StrongReach(s, MaxSlots)

NoExternalHandle(S) == \A h \in StrongIds : ext[h].cb \notin S

(* C3, the state part: a node on a cycle of strong edges has owners and is  *)
(* not destroyed.                                                           *)
C3_CycleNodesAlive ==
    \A s \in Slots :
        OnStrongCycle(s) => heap.strong_count[s] > 0 /\ heap.destroyed[s] = 0

(* C3, the step part: releasing an external handle never takes a node off   *)
(* its cycle, and a cycle no external handle reaches stays as it is.        *)
C3_CycleStep ==
    \A s \in Slots :
        (OnStrongCycle(s) /\ (lastCall'.op = "reset" \/ NoExternalHandle(StrongReach(s, MaxSlots))))
            => /\ OnStrongCycle(s)'
               /\ heap'.strong_count[s] > 0
               /\ heap'.destroyed[s] = 0

(* C3: nodes linked in a cycle of shared handles keep strong_count > 0 and  *)
(* are never destroyed once every external handle is released; releasing    *)
(* external handles never brings a node of a strong cycle to count 0.       *)
C3_StrongCycleLeaks == []C3_CycleNodesAlive /\ [][C3_CycleStep]_vars

(* C3 witness: A -> B -> A, the last external handle has just been released *)
(* and both nodes are held by the other's next alone.                       *)
C3_Witness ==
    /\ lastCall.op = "reset"
    /\ \E a, b \in Slots :
           /\ a # b
           /\ heap.next[a] = b /\ heap.next[b] = a
           /\ NoExternalHandle({a, b})
           /\ heap.strong_count[a] = 1 /\ heap.strong_count[b] = 1
           /\ heap.destroyed[a] = 0 /\ heap.destroyed[b] = 0

(* a and b are NodeWeak nodes whose next fields were set to each other. *)
WeakLinkedPair(a, b) ==
    /\ a # b
    /\ heap.kind[a] = "NodeWeak" /\ heap.kind[b] = "NodeWeak"
    /\ linked[a] = b /\ linked[b] = a

(* C4: two nodes linked to each other through weak next fields are both     *)
(* destroyed, exactly once each, once no external shared handle to either   *)
(* is left; neither stays alive.                                            *)
C4_WeakCycleIsFreed ==
    \A a, b \in Slots :
        (WeakLinkedPair(a, b) /\ NoExternalHandle({a, b})) =>
            /\ heap.destroyed[a] = 1 /\ heap.destroyed[b] = 1
            /\ heap.strong_count[a] = 0 /\ heap.strong_count[b] = 0
            /\ heap.value[a] = 0 /\ heap.value[b] = 0

(* C4 witness: the last external handle of a weakly linked pair has just    *)
(* been released and both nodes are destroyed.                              *)
C4_Witness ==
    /\ lastCall.op = "reset"
    /\ \E a, b \in Slots :
           /\ WeakLinkedPair(a, b)
           /\ NoExternalHandle({a, b})
           /\ heap.destroyed[a] = 1 /\ heap.destroyed[b] = 1

(***************************************************************************)
(* threadSafetyExample (specification SpecThread): main creates a Widget   *)
(* and gives every thread it starts a copy of its shared_ptr.  Every       *)
(* change of a count is one atomic step; what follows from the value read  *)
(* (destroying the Widget, retrying a lock) is a later step of the thread. *)
(***************************************************************************)

(* The id of the Widget shared across the threads. *)
SharedWidgetId == 800

SetThread(t, r) == [threads EXCEPT ![t] = r]

SeqVars == <<ext, weak, lastCall, linked, appVars>>

(* auto shared = make_shared<Widget>(800, ...) *)
MainMakeShared ==
    /\ threads[MainThread].pc = "start"
    /\ LET s == FreshSlot(heap)
       IN  /\ heap' = NewShared(heap, s, "Widget", SharedWidgetId)
           /\ threads' = SetThread(MainThread,
                  [threads[MainThread] EXCEPT !.pc = "run", !.held = s])
    /\ UNCHANGED SeqVars

(* thread t([shared]() {...}): main copies `shared` into the closure, then  *)
(* the thread runs.                                                         *)
MainSpawn(t) ==
    /\ threads[MainThread].pc = "run"
    /\ threads[MainThread].held # Empty
    /\ threads[t].pc = "idle"
    /\ heap' = AddStrong(heap, threads[MainThread].held)
    /\ threads' = SetThread(t,
           [threads[t] EXCEPT !.pc = "run", !.held = threads[MainThread].held])
    /\ UNCHANGED SeqVars

(* shared.use_count() as the thread prints it. *)
ThreadUseCount(t) ==
    /\ threads[t].pc = "run"
    /\ threads[t].held # Empty
    /\ threads' = SetThread(t,
           [threads[t] EXCEPT !.seen = UseCount(heap, threads[t].held)])
    /\ UNCHANGED <<heap, SeqVars>>

(* A release that writes back the count the thread read earlier, minus 1. *)
ThreadReleaseStale(t) ==
    /\ threads[t].pc = "run"
    /\ threads[t].held # Empty
    /\ LET s == threads[t].held
       IN  /\ heap' = [heap EXCEPT !.strong_count[s] = threads[t].seen - 1]
           /\ threads' = SetThread(t,
                  [threads[t] EXCEPT !.held = Empty, !.seen = 0,
                       !.pc = IF threads[t].seen = 1 THEN "dispose" ELSE "run"])
    /\ UNCHANGED SeqVars

(* The thread's shared_ptr is destroyed (the closure at the end of the      *)
(* thread, `shared` in main): use_count is decremented atomically, and the  *)
(* thread that saw 1 goes on to destroy the Widget.                         *)
ThreadRelease(t) ==
    /\ threads[t].pc = "run"
    /\ threads[t].held # Empty
    /\ LET s == threads[t].held
       IN  /\ heap' = [heap EXCEPT !.strong_count[s] = @ - 1]
           /\ threads' = SetThread(t,
                  [threads[t] EXCEPT !.held = Empty, !.seen = 0,
                       !.pc = IF heap.strong_count[s] = 1 THEN "dispose" ELSE "run"])
    /\ UNCHANGED SeqVars

(* The shared_ptr lock() returned is destroyed. *)
ThreadReleasePromoted(t) ==
    /\ threads[t].pc = "run"
    /\ threads[t].promoted # Empty
    /\ LET s == threads[t].promoted
       IN  /\ heap' = [heap EXCEPT !.strong_count[s] = @ - 1]
           /\ threads' = SetThread(t,
                  [threads[t] EXCEPT !.promoted = Empty,
                       !.pc = IF heap.strong_count[s] = 1 THEN "dispose" ELSE "run"])
    /\ UNCHANGED SeqVars

(* The thread that released the last owner destroys the Widget and drops    *)
(* the owners' reference on the control block.                              *)
ThreadDispose(t) ==
    /\ threads[t].pc = "dispose"
    /\ \E s \in Slots :
           /\ heap.allocated[s] /\ heap.owners_ref[s] /\ heap.strong_count[s] = 0
           /\ heap' = FreeControlBlock(
                  [RunDestructor(heap, s) EXCEPT !.owners_ref[s] = FALSE], s)
    /\ threads' = SetThread(t, [threads[t] EXCEPT !.pc = "run"])
    /\ UNCHANGED SeqVars

(* weak_ptr<Widget> wp = shared, in the thread that holds the shared_ptr. *)
ThreadObserve(t) ==
    /\ threads[t].pc = "run"
    /\ threads[t].held # Empty
    /\ threads[t].observer = Empty
    /\ heap' = AddWeak(heap, threads[t].held)
    /\ threads' = SetThread(t, [threads[t] EXCEPT !.observer = threads[t].held])
    /\ UNCHANGED SeqVars

(* The thread's weak_ptr is destroyed. *)
ThreadWeakRelease(t) ==
    /\ threads[t].pc = "run"
    /\ threads[t].observer # Empty
    /\ heap' = ReleaseWeak(heap, threads[t].observer)
    /\ threads' = SetThread(t, [threads[t] EXCEPT !.observer = Empty])
    /\ UNCHANGED SeqVars

(* wp.lock(), first step: read use_count. *)
ThreadLockLoad(t) ==
    /\ threads[t].pc = "run"
    /\ threads[t].observer # Empty
    /\ threads[t].promoted = Empty
    /\ threads' = SetThread(t,
           [threads[t] EXCEPT !.pc = "lock_cas",
                              !.seen = UseCount(heap, threads[t].observer)])
    /\ UNCHANGED <<heap, SeqVars>>

(* A lock() that stores the count it read plus 1 without comparing. *)
ThreadLockCasBlind(t) ==
    /\ threads[t].pc = "lock_cas"
    /\ LET s == threads[t].observer
           c == threads[t].seen
       IN  IF c = 0
           THEN /\ threads' = SetThread(t, [threads[t] EXCEPT !.pc = "run", !.seen = 0])
                /\ UNCHANGED heap
           ELSE /\ heap' = [heap EXCEPT !.strong_count[s] = c + 1]
                /\ threads' = SetThread(t,
                       [threads[t] EXCEPT !.pc = "run", !.seen = 0, !.promoted = s])
    /\ UNCHANGED SeqVars

(* wp.lock(), second step: nothing to promote when the count read was 0;    *)
(* else use_count becomes the count read plus 1 if it still is the count    *)
(* read (compare and exchange), and lock() tries again with the current     *)
(* count if it is not.                                                      *)
ThreadLockCas(t) ==
    /\ threads[t].pc = "lock_cas"
    /\ LET s == threads[t].observer
           c == threads[t].seen
       IN  IF c = 0
           THEN /\ threads' = SetThread(t, [threads[t] EXCEPT !.pc = "run", !.seen = 0])
                /\ UNCHANGED heap
           ELSE IF heap.strong_count[s] = c
           THEN /\ heap' = [heap EXCEPT !.strong_count[s] = c + 1]
                /\ threads' = SetThread(t,
                       [threads[t] EXCEPT !.pc = "run", !.seen = 0, !.promoted = s])
           ELSE /\ threads' = SetThread(t,
                       [threads[t] EXCEPT !.seen = heap.strong_count[s]])
                /\ UNCHANGED heap
    /\ UNCHANGED SeqVars

(* The thread function returns; its locals are gone by then. *)
ThreadExit(t) ==
    /\ threads[t].pc = "run"
    /\ threads[t].held = Empty
    /\ threads[t].observer = Empty
    /\ threads[t].promoted = Empty
    /\ threads' = SetThread(t, [threads[t] EXCEPT !.pc = "done", !.seen = 0])
    /\ UNCHANGED <<heap, SeqVars>>

(* t1.join(); t2.join(); then main prints the final use_count. *)
MainJoin ==
    /\ threads[MainThread].pc = "run"
    /\ ~threads[MainThread].joined
    /\ threads[MainThread].held # Empty
    /\ \A t \in Workers : threads[t].pc = "done"
    /\ threads' = SetThread(MainThread,
           [threads[MainThread] EXCEPT !.joined = TRUE,
                !.final = UseCount(heap, threads[MainThread].held)])
    /\ UNCHANGED <<heap, SeqVars>>

NextThread ==
    \/ MainMakeShared
    \/ \E t \in Workers : MainSpawn(t)
    \/ \E t \in Workers : ThreadUseCount(t)
    \/ \E t \in Threads : ThreadRelease(t)
    \/ \E t \in Workers : ThreadReleasePromoted(t)
    \/ \E t \in Threads : ThreadDispose(t)
    \/ \E t \in Workers : ThreadObserve(t)
    \/ \E t \in Workers : ThreadWeakRelease(t)
    \/ \E t \in Workers : ThreadLockLoad(t)
    \/ \E t \in Workers : ThreadLockCas(t)
    \/ \E t \in Workers : ThreadExit(t)
    \/ MainJoin

SpecThread == Init /\ [][NextThread]_vars

(* The shared_ptr objects, over all threads, that own slot s. *)
ThreadOwners(s) ==
    {<<t, "held">> : t \in {u \in Threads : threads[u].held = s}}
        \cup {<<t, "promoted">> : t \in {u \in Threads : threads[u].promoted = s}}

Disposing == \E t \in Threads : threads[t].pc = "dispose"

(* C7, the state part: a value that any thread owns, through its copy or    *)
(* through what lock() returned, is alive and unchanged; no value is        *)
(* destroyed twice; a value nobody owns is destroyed once all threads are   *)
(* past their release.                                                      *)
C7_OwnedIsAlive ==
    \A s \in Slots :
        heap.allocated[s] =>
            /\ ThreadOwners(s) # {} =>
                   /\ heap.destroyed[s] = 0
                   /\ heap.value[s] = SharedWidgetId
                   /\ heap.strong_count[s] >= 1
            /\ heap.destroyed[s] <= 1
            /\ (ThreadOwners(s) = {} /\ ~Disposing) => heap.destroyed[s] = 1

(* C7, the step part: a lock() ends either with a new owner, use_count      *)
(* raised by 1 from a count that was not 0 and the value alive, or with     *)
(* nothing, use_count 0 and the value destroyed or being destroyed by the   *)
(* thread that released the last owner.                                     *)
C7_LockOutcome ==
    \A t \in Workers :
        (threads[t].pc = "lock_cas" /\ threads'[t].pc = "run") =>
            LET s == threads[t].observer
            IN  IF threads'[t].promoted # Empty
                THEN /\ threads'[t].promoted = s
                     /\ heap.strong_count[s] >= 1
                     /\ heap'.strong_count[s] = heap.strong_count[s] + 1
                     /\ heap'.destroyed[s] = 0
                ELSE /\ heap' = heap
                     /\ heap.strong_count[s] = 0
                     /\ (heap.destroyed[s] = 1 \/ Disposing)

(* C7: a lock() racing with the release of the last owner either succeeds   *)
(* and keeps the value alive until the promoted handle is released, or      *)
(* fails and the value is destroyed exactly once; no thread gets a handle   *)
(* to a destroyed value, and no value is destroyed while a thread owns it.  *)
C7_PromoteRaceIsSafe == []C7_OwnedIsAlive /\ [][C7_LockOutcome]_vars

(* C7 witness: a thread inside lock() has read a count that was not 0, and  *)
(* before its compare-and-exchange another thread released the last owner   *)
(* and is about to destroy the value.                                       *)
C7_Witness ==
    \E t \in Workers, u \in Threads :
        /\ t # u
        /\ threads[t].pc = "lock_cas"
        /\ threads[t].seen >= 1
        /\ heap.strong_count[threads[t].observer] = 0
        /\ threads[u].pc = "dispose"

(* C8: under every interleaving of the threads' copies and releases         *)
(* strong_count is the number of shared_ptr objects alive, so it is 1 when  *)
(* main reads it after the joins; the value is not destroyed while an owner *)
(* is left and is destroyed once after the last owner is released.          *)
C8_NoLostUpdate ==
    \A s \in Slots :
        heap.allocated[s] =>
            /\ heap.strong_count[s] = Cardinality(ThreadOwners(s))
            /\ threads[MainThread].joined => threads[MainThread].final = 1
            /\ heap.destroyed[s] = (IF ThreadOwners(s) = {} /\ ~Disposing THEN 1 ELSE 0)

(* C8 witness: both threads ran and were joined, main read use_count 1,     *)
(* then released its handle, and the value is destroyed once.               *)
C8_Witness ==
    /\ threads[MainThread].joined
    /\ threads[MainThread].final = 1
    /\ threads[MainThread].held = Empty
    /\ threads[MainThread].pc = "run"
    /\ \A t \in Workers : threads[t].pc = "done"
    /\ \E s \in Slots : heap.allocated[s] /\ heap.destroyed[s] = 1

(***************************************************************************)
(* The exclusive handles of uniquePtrExample, createShape, raiiExample and *)
(* moveSemanticsExample (specification SpecUnique).                        *)
(***************************************************************************)

UniqueVars == <<heap, ext, weak, linked, threads, cache, subject>>

(* A dereference of a null unique_ptr that ended in a fault ends the run. *)
Running == lastCall.op # "deref_fault"

HasFreeValue(o) == \E v \in UValues : ~o.made[v]

FreshValue(o) ==
    CHOOSE v \in UValues : ~o.made[v] /\ \A u \in UValues : u < v => o.made[u]

(* The owners of value v. *)
UniqueOwners(o, v) == {h \in UniqueIds : o.ptr[h].val = v}

(* What the destruction of a value does, in order: the custom deleter of    *)
(* uniquePtrExample prints and then deletes; default_delete deletes.        *)
DeleteEvents(d) ==
    IF d = "custom" THEN <<"deleter", "destructor", "free">>
    ELSE <<"destructor", "free">>

(* A unique_ptr destructor that hands its pointer to the deleter without    *)
(* looking at it.                                                           *)
ReleaseUniqueAlways(o, h) ==
    LET v == o.ptr[h].val
    IN  IF v = Empty
        THEN [o EXCEPT !.nullCalls = @ + 1]
        ELSE [o EXCEPT !.events[v] = @ \o DeleteEvents(o.ptr[h].del),
                       !.ptr[h].val = Empty]

(* ~unique_ptr / scope exit: the deleter is invoked on the owned pointer    *)
(* and only when there is one.                                              *)
ReleaseUnique(o, h) ==
    LET v == o.ptr[h].val
    IN  IF v = Empty
        THEN o
        ELSE [o EXCEPT !.events[v] = @ \o DeleteEvents(o.ptr[h].del),
                       !.ptr[h].val = Empty]

(* unique_ptr<Widget> uptr = make_unique<Widget>(...), or                   *)
(* unique_ptr<Widget, decltype(customDeleter)> uptr3(new Widget(...), ...)  *)
MakeUnique(h, d) ==
    /\ Running
    /\ own.ptr[h].val = Empty
    /\ HasFreeValue(own)
    /\ LET v == FreshValue(own)
       IN  own' = [own EXCEPT !.made[v] = TRUE, !.ptr[h] = UniqueHandle(v, d)]
    /\ lastCall' = Call("make_unique", h, 0)
    /\ UNCHANGED UniqueVars

(* createShape returning nullptr, fopen returning NULL: the new unique_ptr  *)
(* is empty.                                                                *)
MakeNull(h, d) ==
    /\ Running
    /\ own.ptr[h].val = Empty
    /\ own' = [own EXCEPT !.ptr[h] = UniqueHandle(Empty, d)]
    /\ lastCall' = Call("make_null", h, 0)
    /\ UNCHANGED UniqueVars

(* A move that leaves the source as it was. *)
MoveUniqueKeepsSource(g, h) ==
    /\ Running
    /\ g # h
    /\ own.ptr[h].val = Empty
    /\ own' = [own EXCEPT !.ptr[h] = own.ptr[g]]
    /\ lastCall' = Call("move", g, h)
    /\ UNCHANGED UniqueVars

(* A move that deletes what the source owned. *)
MoveUniqueDestroys(g, h) ==
    /\ Running
    /\ g # h
    /\ own.ptr[h].val = Empty
    /\ own' = [ReleaseUnique(own, g) EXCEPT !.ptr[h] = own.ptr[g]]
    /\ lastCall' = Call("move", g, h)
    /\ UNCHANGED UniqueVars

(* unique_ptr<Widget> uptr2 = move(uptr); auto moved = move(widgets[0]):    *)
(* the new variable takes the pointer and the deleter, the source is left   *)
(* empty.                                                                   *)
MoveUnique(g, h) ==
    /\ Running
    /\ g # h
    /\ own.ptr[h].val = Empty
    /\ LET v == own.ptr[g].val
           o == [own EXCEPT !.ptr[h] = own.ptr[g], !.ptr[g].val = Empty]
       IN  own' = IF v = Empty THEN o
                  ELSE [o EXCEPT !.moves[v] = IF @ < MaxMoves THEN @ + 1 ELSE @]
    /\ lastCall' = Call("move", g, h)
    /\ UNCHANGED UniqueVars

(* The unique_ptr variable leaves its scope. *)
ResetUnique(h) ==
    /\ Running
    /\ own' = ReleaseUnique(own, h)
    /\ lastCall' = Call("unique_reset", h, own.ptr[h].val)
    /\ UNCHANGED UniqueVars

(* A dereference that yields a value whatever the pointer is. *)
DerefOutcomesAlwaysOk(v) == {"deref_ok"}

(* uptr->greet() reads through the stored pointer.  With a null pointer the *)
(* behaviour is undefined: the read faults, or it goes on with a reference  *)
(* to no object.                                                            *)
DerefOutcomes(v) ==
    IF v = Empty THEN {"deref_fault", "deref_wild"} ELSE {"deref_ok"}

(* uptr->greet(), uptr2->greet(), w->greet() *)
Deref(h) ==
    /\ Running
    /\ \E r \in DerefOutcomes(own.ptr[h].val) :
           lastCall' = Call(r, h, own.ptr[h].val)
    /\ UNCHANGED <<own, UniqueVars>>

(* if (shape1) shape1->draw(); if (!uptr) ...: the pointer is tested first  *)
(* and an empty one is not dereferenced.                                    *)
GuardedDeref(h) ==
    /\ Running
    /\ lastCall' = IF own.ptr[h].val = Empty
                   THEN Call("deref_skipped", h, Empty)
                   ELSE Call("deref_ok", h, own.ptr[h].val)
    /\ UNCHANGED <<own, UniqueVars>>

NextUnique ==
    \/ \E h \in UniqueIds, d \in Deleters : MakeUnique(h, d)
    \/ \E h \in UniqueIds, d \in Deleters : MakeNull(h, d)
    \/ \E g, h \in UniqueIds : MoveUnique(g, h)
    \/ \E h \in UniqueIds : ResetUnique(h)
    \/ \E h \in UniqueIds : Deref(h)
    \/ \E h \in UniqueIds : GuardedDeref(h)

SpecUnique == Init /\ [][NextUnique]_vars

(* The value is constructed and its destructor has not run. *)
UniqueAlive(v) == own.made[v] /\ own.events[v] = <<>>

(* C11, the step part: a move leaves the source empty and the destination   *)
(* with the value the source held.                                          *)
C11_MoveStep ==
    lastCall'.op = "move" =>
        /\ own'.ptr[lastCall'.a].val = Empty
        /\ own'.ptr[lastCall'.b] = own.ptr[lastCall'.a]

(* C11, the state part: no two unique_ptr variables own the same value. *)
C11_SoleOwner ==
    \A g, h \in UniqueIds :
        (own.ptr[g].val # Empty /\ own.ptr[g].val = own.ptr[h].val) => g = h

(* C11: after move_from the source is empty and the destination refers to   *)
(* the value the source held; no two non-empty exclusive handles refer to   *)
(* the same value.                                                          *)
C11_MoveTransfersOwnership == [][C11_MoveStep]_vars /\ []C11_SoleOwner

(* C11 witness: a move has just taken a live value out of its source. *)
C11_Witness ==
    /\ lastCall.op = "move"
    /\ own.ptr[lastCall.a].val = Empty
    /\ own.ptr[lastCall.b].val # Empty
    /\ UniqueAlive(own.ptr[lastCall.b].val)

DerefOps == {"deref_ok", "deref_fault", "deref_wild", "deref_skipped"}

C12_DerefStep ==
    lastCall'.op \in DerefOps =>
        LET v == own.ptr[lastCall'.a].val
        IN  /\ own' = own
            /\ heap' = heap
            /\ lastCall'.b = v
            /\ (lastCall'.op = "deref_ok") <=> (v # Empty)
            /\ v # Empty => UniqueAlive(v)

(* C12 amended, the state part: after a fault nothing more happens. *)
C12_FaultEndsRun ==
    lastCall.op = "deref_fault" => lastCall'.op = "deref_fault"

C13_DeleterOnce ==
    /\ own.nullCalls = 0
    /\ \A v \in UValues :
           /\ own.events[v] \in {<<>>, DeleteEvents("default"), DeleteEvents("custom")}
           /\ own.made[v] => ((own.events[v] = <<>>) <=> (UniqueOwners(own, v) # {}))
           /\ ~own.made[v] => own.events[v] = <<>>

(* C13, the step part: the deleter of the handle runs in the step that      *)
(* releases the handle owning the value, and in no move.                    *)
C13_DeleterStep ==
    \A v \in UValues :
        own'.events[v] # own.events[v] =>
            /\ lastCall'.op = "unique_reset"
            /\ own.ptr[lastCall'.a].val = v
            /\ own.events[v] = <<>>
            /\ own'.events[v] = DeleteEvents(own.ptr[lastCall'.a].del)

(* C13: a client-supplied destroy-action is invoked exactly once per owned  *)
(* value, by the release of the last owning handle and before the storage   *)
(* is released; not by a move and not for a handle that is empty when       *)
(* released.                                                                *)
C13_DestroyActionOnce == []C13_DeleterOnce /\ [][C13_DeleterStep]_vars

(* C13 witness: a value with the custom deleter was moved, its owner was    *)
(* released, and an empty handle with the custom deleter exists.            *)
C13_Witness ==
    /\ lastCall.op = "unique_reset"
    /\ lastCall.b # Empty
    /\ own.events[lastCall.b] = <<"deleter", "destructor", "free">>
    /\ own.moves[lastCall.b] >= 1
    /\ \E h \in UniqueIds : own.ptr[h] = UniqueHandle(Empty, "custom")

(* C19, the state part: a live value has exactly one owner, a destroyed one *)
(* has none and its destructor ran once.                                    *)
C19_OneOwnerUntilDestroyed ==
    \A v \in UValues :
        own.made[v] =>
            IF UniqueAlive(v)
            THEN Cardinality(UniqueOwners(own, v)) = 1
            ELSE /\ UniqueOwners(own, v) = {}
                 /\ Cardinality({i \in DOMAIN own.events[v] : own.events[v][i] = "destructor"}) = 1

(* C19, the step part: a move destroys nothing and keeps the value alive in *)
(* the destination; releasing an empty handle destroys nothing.             *)
C19_MoveStep ==
    /\ lastCall'.op = "move" =>
           /\ own'.events = own.events
           /\ own'.made = own.made
           /\ LET v == own.ptr[lastCall'.a].val
              IN  v # Empty =>
                      /\ UniqueOwners(own', v) = {lastCall'.b}
                      /\ own'.made[v] /\ own'.events[v] = <<>>
    /\ (lastCall'.op = "unique_reset" /\ own.ptr[lastCall'.a].val = Empty) =>
           own'.events = own.events

(* C19: move_from never destroys the moved value and never changes how      *)
(* often it is destroyed: after any chain of moves the value is alive with  *)
(* exactly one owner, and it is destroyed once, when that owner is          *)
(* released; releasing an emptied source destroys nothing.                  *)
C19_MovePreservesValue == []C19_OneOwnerUntilDestroyed /\ [][C19_MoveStep]_vars

(* C19 witness: a value that changed hands twice has just been destroyed by *)
(* the release of its final owner.                                          *)
C19_Witness ==
    /\ lastCall.op = "unique_reset"
    /\ lastCall.b # Empty
    /\ own.moves[lastCall.b] = 2
    /\ own.events[lastCall.b] # <<>>

(***************************************************************************)
(* Component and shared_from_this (specification SpecSelf).                *)
(***************************************************************************)

(* The id advancedFeatures gives its Component. *)
ComponentId == 200

(* The Component is alive: constructed and not destroyed. *)
ComponentAlive(s) ==
    heap.allocated[s] /\ heap.kind[s] = "Component" /\ heap.destroyed[s] = 0

(* A Component that keeps a shared_ptr to itself. *)
MakeComponentOwningSelf(h) ==
    /\ ext[h].cb = Empty
    /\ HasFreeSlot(heap)
    /\ LET s == FreshSlot(heap)
       IN  /\ heap' = [AddStrong(NewShared(heap, s, "Component", ComponentId), s)
                           EXCEPT !.next[s] = s]
           /\ ext' = [ext EXCEPT ![h] = OwnerHandle(s)]
           /\ linked' = [linked EXCEPT ![s] = s]
    /\ lastCall' = Call("make_component", h, 0)
    /\ UNCHANGED <<weak, threads, appVars>>

(* auto comp = make_shared<Component>(200): the first shared_ptr also sets  *)
(* the weak self-reference of enable_shared_from_this, a weak_ptr member of *)
(* the Component.                                                           *)
MakeComponent(h) ==
    /\ ext[h].cb = Empty
    /\ HasFreeSlot(heap)
    /\ LET s == FreshSlot(heap)
       IN  /\ heap' = [AddWeak(NewShared(heap, s, "Component", ComponentId), s)
                           EXCEPT !.wnext[s] = s]
           /\ ext' = [ext EXCEPT ![h] = OwnerHandle(s)]
           /\ linked' = [linked EXCEPT ![s] = s]
    /\ lastCall' = Call("make_component", h, 0)
    /\ UNCHANGED <<weak, threads, appVars>>

(* Component c(200): a Component no shared_ptr owns; its self-reference is  *)
(* empty.                                                                   *)
MakePlainComponent ==
    /\ HasFreeSlot(heap)
    /\ LET s == FreshSlot(heap)
       IN  heap' = [heap EXCEPT !.allocated[s] = TRUE,
                                !.kind[s] = "Component",
                                !.value[s] = ComponentId]
    /\ lastCall' = Call("plain_component", 0, 0)
    /\ UNCHANGED <<ext, weak, linked, threads, appVars>>

(* The plain Component leaves its scope. *)
DestroyPlainComponent(s) ==
    /\ ComponentAlive(s)
    /\ linked[s] = Empty
    /\ heap' = RunDestructor(heap, s)
    /\ lastCall' = Call("plain_destroy", s, 0)
    /\ UNCHANGED <<ext, weak, linked, threads, appVars>>

(* comp->getPtr(): shared_from_this() makes a shared_ptr from the weak      *)
(* self-reference and throws bad_weak_ptr when that is empty.               *)
GetPtr(s, h) ==
    /\ ComponentAlive(s)
    /\ ext[h].cb = Empty
    /\ IF CanLock(heap, heap.wnext[s])
       THEN /\ heap' = AddStrong(heap, heap.wnext[s])
            /\ ext' = [ext EXCEPT ![h] = OwnerHandle(heap.wnext[s])]
            /\ lastCall' = Call("get_ptr", s, h)
       ELSE /\ UNCHANGED <<heap, ext>>
            /\ lastCall' = Call("bad_weak_ptr", s, h)
    /\ UNCHANGED <<weak, linked, threads, appVars>>

NextSelf ==
    \/ \E h \in StrongIds : MakeComponent(h)
    \/ MakePlainComponent
    \/ \E s \in Slots : DestroyPlainComponent(s)
    \/ \E s \in Slots, h \in StrongIds : GetPtr(s, h)
    \/ \E g, h \in StrongIds : Copy(g, h)
    \/ \E h \in StrongIds : Reset(h)

SpecSelf == Init /\ [][NextSelf]_vars

(* C14, the step part: getPtr() on a Component some shared_ptr owns adds    *)
(* one owner on the Component's own control block and allocates nothing;    *)
(* on a Component no shared_ptr owns it throws and returns no handle.       *)
C14_GetPtrStep ==
    /\ lastCall'.op = "get_ptr" =>
           LET s == lastCall'.a
               h == lastCall'.b
           IN  /\ LiveHandles(s) # {}
               /\ ext'[h] = OwnerHandle(s)
               /\ heap'.strong_count[s] = heap.strong_count[s] + 1
               /\ heap'.allocated = heap.allocated
               /\ heap'.weak_count = heap.weak_count
               /\ heap'.destroyed = heap.destroyed
    /\ lastCall'.op = "bad_weak_ptr" =>
           /\ LiveHandles(lastCall'.a) = {}
           /\ linked[lastCall'.a] = Empty
           /\ heap' = heap
           /\ ext' = ext

(* C14, the state part: the self-reference is no owner: use_count of a      *)
(* Component made by make_shared is the number of shared_ptr variables on   *)
(* it, and the Component is destroyed, once, exactly when there is none.    *)
C14_SelfReferenceIsWeak ==
    \A s \in Slots :
        (heap.allocated[s] /\ linked[s] = s) =>
            /\ heap.strong_count[s] = Cardinality(LiveHandles(s))
            /\ heap.destroyed[s] = (IF LiveHandles(s) = {} THEN 1 ELSE 0)
            /\ heap.cb_released[s] = heap.destroyed[s]

(* C14: self_reference on a value owned by a shared handle returns a new    *)
(* shared handle on the same control block and raises strong_count by 1;    *)
(* the weak back-reference adds nothing to strong_count, so the value is    *)
(* destroyed once all handles are released; before any shared handle owns   *)
(* the value, self_reference fails and returns no handle.                   *)
C14_SelfReference == [][C14_GetPtrStep]_vars /\ []C14_SelfReferenceIsWeak

(* C14 witness: getPtr() on the sole owner's Component has just returned    *)
(* the second owner.                                                        *)
C14_Witness ==
    /\ lastCall.op = "get_ptr"
    /\ heap.strong_count[lastCall.a] = 2
    /\ ext[lastCall.b] = OwnerHandle(lastCall.a)
    /\ heap.wnext[lastCall.a] = lastCall.a

(***************************************************************************)
(* Frame of the weak handle operations (specification Spec).               *)
(***************************************************************************)

(* C15, the step part: creating a weak_ptr raises weak_count of its slot by *)
(* 1, destroying one lowers it by 1, and neither changes any use_count,     *)
(* any value or any destructor count.                                       *)
C15_WeakStep ==
    /\ lastCall'.op = "observe" =>
           LET s == ext[lastCall'.a].cb
           IN  /\ heap'.weak_count = [heap.weak_count EXCEPT ![s] = @ + 1]
               /\ weak'[lastCall'.b] = s
    /\ lastCall'.op = "weak_reset" =>
           LET s == weak[lastCall'.a]
           IN  /\ heap'.weak_count = [heap.weak_count EXCEPT ![s] = @ - 1]
               /\ weak'[lastCall'.a] = Empty
    /\ lastCall'.op \in {"observe", "weak_reset"} =>
           /\ heap'.strong_count = heap.strong_count
           /\ heap'.value = heap.value
           /\ heap'.destroyed = heap.destroyed
           /\ ext' = ext

(* C15, the state part: whether a value is destroyed depends on its shared  *)
(* handles alone, whatever weak handles observe it.                         *)
C15_ObserversDoNotOwn ==
    \A s \in Slots :
        heap.allocated[s] =>
            /\ heap.destroyed[s] = (IF LiveHandles(s) = {} THEN 1 ELSE 0)
            /\ heap.strong_count[s] + heap.weak_count[s]
                   = Cardinality(LiveHandles(s)) + Cardinality(LiveObservers(s))

(* C15: observe and the release of a weak handle change weak_count by 1 and *)
(* leave strong_count and the value unchanged; neither triggers nor delays  *)
(* the destroy-action.                                                      *)
C15_WeakHandlesFrame == [][C15_WeakStep]_vars /\ []C15_ObserversDoNotOwn

(* C15 witness: a weak handle on a live value has just been released and    *)
(* its sole owner is still there.                                           *)
C15_Witness ==
    /\ lastCall.op = "weak_reset"
    /\ heap.strong_count[lastCall.b] = 1
    /\ heap.weak_count[lastCall.b] = 0
    /\ heap.destroyed[lastCall.b] = 0

(***************************************************************************)
(* ResourceCache (specification SpecCache).  cache[k] is the weak_ptr the  *)
(* map holds for key k, Empty when the map has no entry for k.             *)
(***************************************************************************)

(* The id resourceCacheExample gives its widgets. *)
CacheWidgetId == 100

(* The miss path: make_shared<Widget>(id, key); cache[key] = sp; return sp. *)
(* The assignment replaces the weak_ptr the entry held.                     *)
CacheCreate(k, h) ==
    /\ HasFreeSlot(heap)
    /\ LET s   == FreshSlot(heap)
           old == cache[k]
           h1  == [NewShared(heap, s, "Widget", CacheWidgetId) EXCEPT !.name[s] = k]
           h2  == AddWeak(h1, s)
       IN  /\ heap' = IF old = Empty THEN h2 ELSE ReleaseWeak(h2, old)
           /\ cache' = [cache EXCEPT ![k] = s]
           /\ ext' = [ext EXCEPT ![h] = OwnerHandle(s)]
    /\ lastCall' = Call("cache_miss", k, h)

(* A getOrCreate that never looks for a live entry. *)
GetOrCreateAlwaysNew(k, h) ==
    /\ ext[h].cb = Empty
    /\ CacheCreate(k, h)
    /\ UNCHANGED <<weak, linked, threads, own, subject>>

(* auto res = cache.getOrCreate(key, id) *)
GetOrCreate(k, h) ==
    /\ ext[h].cb = Empty
    /\ IF cache[k] # Empty /\ CanLock(heap, cache[k])
       THEN /\ heap' = AddStrong(heap, cache[k])
            /\ ext' = [ext EXCEPT ![h] = OwnerHandle(cache[k])]
            /\ lastCall' = Call("cache_hit", k, h)
            /\ UNCHANGED cache
       ELSE CacheCreate(k, h)
    /\ UNCHANGED <<weak, linked, threads, own, subject>>

NextCache ==
    \/ \E k \in Keys, h \in StrongIds : GetOrCreate(k, h)
    \/ \E g, h \in StrongIds : Copy(g, h)
    \/ \E h \in StrongIds : Reset(h)

SpecCache == Init /\ [][NextCache]_vars

(* The widget in slot s is alive. *)
WidgetAlive(s) == heap.allocated[s] /\ heap.destroyed[s] = 0

(* C16, the step part: a call for a key whose widget has a live shared_ptr  *)
(* is a hit: it returns one more owner of that widget and constructs        *)
(* nothing; every other call is a miss: it constructs a widget for the key  *)
(* and stores a weak_ptr to it.                                             *)
C16_GetOrCreateStep ==
    /\ lastCall'.op \in {"cache_hit", "cache_miss"} =>
           ((lastCall'.op = "cache_hit")
                <=> (cache[lastCall'.a] # Empty /\ LiveHandles(cache[lastCall'.a]) # {}))
    /\ lastCall'.op = "cache_hit" =>
           LET k == lastCall'.a
               s == cache[k]
           IN  /\ ext'[lastCall'.b] = OwnerHandle(s)
               /\ heap'.strong_count[s] = heap.strong_count[s] + 1
               /\ heap'.allocated = heap.allocated
               /\ cache' = cache
    /\ lastCall'.op = "cache_miss" =>
           LET k == lastCall'.a
               s == ext'[lastCall'.b].cb
           IN  /\ s # Empty
               /\ ~heap.allocated[s]
               /\ heap'.allocated[s]
               /\ heap'.name[s] = k
               /\ heap'.value[s] = CacheWidgetId
               /\ heap'.strong_count[s] = 1
               /\ cache'[k] = s
               /\ \A j \in Keys \ {k} : cache'[j] = cache[j]

(* C16, the state part: the cache owns nothing: use_count of a widget is    *)
(* the number of shared_ptr variables the callers hold, the widget is       *)
(* destroyed exactly when there is none, and no key has two live widgets.   *)
C16_CacheOwnsNothing ==
    /\ \A s \in Slots :
           heap.allocated[s] =>
               /\ heap.strong_count[s] = Cardinality(LiveHandles(s))
               /\ heap.destroyed[s] = (IF LiveHandles(s) = {} THEN 1 ELSE 0)
               /\ heap.weak_count[s] = Cardinality({k \in Keys : cache[k] = s})
    /\ \A s, u \in Slots :
           (WidgetAlive(s) /\ WidgetAlive(u) /\ heap.name[s] = heap.name[u]) => s = u
    /\ \A k \in Keys : cache[k] # Empty => heap.name[cache[k]] = k

(* C16: getOrCreate returns the live widget of the key when there is one    *)
(* and constructs a new one otherwise; the cache never owns a widget, so a  *)
(* widget is destroyed as soon as the callers' handles are released, and at *)
(* most one widget per key is alive.                                        *)
C16_CacheByWeakReference == [][C16_GetOrCreateStep]_vars /\ []C16_CacheOwnsNothing

(* C16 witness: the widget of a key was destroyed and a call for the key    *)
(* has just constructed a new one.                                          *)
C16_Witness ==
    /\ lastCall.op = "cache_miss"
    /\ \E s \in Slots :
           /\ heap.allocated[s]
           /\ heap.name[s] = lastCall.a
           /\ heap.destroyed[s] = 1
           /\ cache[lastCall.a] # s
           /\ WidgetAlive(cache[lastCall.a])

(***************************************************************************)
(* Subject (specification SpecSubject).  subject.observers is the vector   *)
(* of weak_ptr, an entry being the slot it observes (Empty for the         *)
(* weak_ptr made from an empty shared_ptr); subject.greeted lists the      *)
(* widgets the last notify() greeted, in the order of the calls, and       *)
(* subject.erased is the number of entries that notify() erased.           *)
(***************************************************************************)

(* The ids observerPatternExample gives its widgets. *)
ObserverIds == {600, 601}

(* wp.lock() succeeds inside the predicate of remove_if. *)
Notified(hp, s) == s # Empty /\ CanLock(hp, s)

(* The weak_ptr that refers to slot s is destroyed. *)
DropObserver(hp, s) == IF s = Empty THEN hp ELSE ReleaseWeak(hp, s)

(* erase(remove_if(...)): the entries whose lock() failed are destroyed. *)
RECURSIVE EraseExpired(_, _, _)
EraseExpired(hp0, hp, obs) ==
    IF obs = <<>> THEN hp
    ELSE IF Notified(hp0, Head(obs))
         THEN EraseExpired(hp0, ReleaseStrong(AddStrong(hp, Head(obs)), Head(obs)), Tail(obs))
         ELSE EraseExpired(hp0, DropObserver(hp, Head(obs)), Tail(obs))

(* auto obs = make_shared<Widget>(id, name) *)
MakeObserver(h, id) ==
    /\ ext[h].cb = Empty
    /\ HasFreeSlot(heap)
    /\ heap' = NewShared(heap, FreshSlot(heap), "Widget", id)
    /\ ext' = [ext EXCEPT ![h] = OwnerHandle(FreshSlot(heap))]
    /\ lastCall' = Call("make_shared", h, FreshSlot(heap))
    /\ UNCHANGED <<weak, linked, threads, appVars>>

(* A notify() that greets the live observers and erases nothing. *)
NotifyKeepsExpired ==
    /\ subject' = [subject EXCEPT
                       !.greeted = SelectSeq(subject.observers, LAMBDA s : Notified(heap, s)),
                       !.erased = 0]
    /\ lastCall' = Call("notify", 0, 0)
    /\ UNCHANGED <<heap, ext, weak, linked, threads, own, cache>>

(* subject.attach(obs): obs is passed by value, a weak_ptr to it is pushed. *)
Attach(h) ==
    /\ Len(subject.observers) < MaxObservers
    /\ LET s == ext[h].cb
       IN  /\ heap' = IF s = Empty THEN heap
                      ELSE ReleaseStrong(AddWeak(AddStrong(heap, s), s), s)
           /\ subject' = [subject EXCEPT !.observers = Append(@, s)]
           /\ lastCall' = Call("attach", h, s)
    /\ UNCHANGED <<ext, weak, linked, threads, own, cache>>

(* subject.notify() *)
Notify ==
    /\ LET live == SelectSeq(subject.observers, LAMBDA s : Notified(heap, s))
       IN  /\ subject' = [observers |-> live,
                          greeted   |-> live,
                          erased    |-> Len(subject.observers) - Len(live)]
           /\ heap' = EraseExpired(heap, heap, subject.observers)
    /\ lastCall' = Call("notify", 0, 0)
    /\ UNCHANGED <<ext, weak, linked, threads, own, cache>>

NextSubject ==
    \/ \E h \in StrongIds, id \in ObserverIds : MakeObserver(h, id)
    \/ \E g, h \in StrongIds : Copy(g, h)
    \/ \E h \in StrongIds : Reset(h)
    \/ \E h \in StrongIds : Attach(h)
    \/ Notify

SpecSubject == Init /\ [][NextSubject]_vars

(* The attached entries whose widget still has a shared_ptr, in order. *)
LiveEntries == SelectSeq(subject.observers, LAMBDA s : s # Empty /\ LiveHandles(s) # {})

(* The number of entries of the vector that observe slot s. *)
EntriesOf(s) == Cardinality({i \in DOMAIN subject.observers : subject.observers[i] = s})

(* C17, the step part: notify() greets the attached entries whose widget is *)
(* alive, once per entry and in attachment order, and leaves exactly those  *)
(* entries in the vector; attach() appends one entry; neither changes any   *)
(* use_count, destroys a widget or changes a shared_ptr variable.           *)
C17_SubjectStep ==
    /\ lastCall'.op = "notify" =>
           /\ subject'.greeted = LiveEntries
           /\ subject'.observers = LiveEntries
           /\ subject'.erased = Len(subject.observers) - Len(LiveEntries)
    /\ lastCall'.op = "attach" =>
           /\ subject'.observers = Append(subject.observers, ext[lastCall'.a].cb)
           /\ subject'.greeted = subject.greeted
    /\ lastCall'.op \in {"notify", "attach"} =>
           /\ heap'.strong_count = heap.strong_count
           /\ heap'.destroyed = heap.destroyed
           /\ heap'.allocated = heap.allocated
           /\ ext' = ext

(* C17, the state part: the subject owns nothing: use_count of a widget is  *)
(* the number of shared_ptr variables, and the entries of the vector are    *)
(* its only weak references.                                                *)
C17_SubjectOwnsNothing ==
    \A s \in Slots :
        heap.allocated[s] =>
            /\ heap.strong_count[s] = Cardinality(LiveHandles(s))
            /\ heap.weak_count[s] = EntriesOf(s)

(* C17: notify greets exactly the attached observers that are alive, in     *)
(* attachment order, and erases exactly the expired entries; attach and     *)
(* notify leave every observer's use_count as it was.                       *)
C17_NotifyLiveObservers == [][C17_SubjectStep]_vars /\ []C17_SubjectOwnsNothing

(* C17 witness: a notify() has just greeted a live observer and erased an   *)
(* expired entry.                                                           *)
C17_Witness ==
    /\ lastCall.op = "notify"
    /\ subject.erased >= 1
    /\ Len(subject.greeted) >= 1
    /\ \E s \in Slots : heap.destroyed[s] = 1 /\ heap.cb_released[s] = 1

(***************************************************************************)
(* The scope of the weak-linked nodes (specification SpecScope): the       *)
(* NodeWeak half of cycleDemo with the closing brace of its block.  The    *)
(* shared_ptr variables are declared in the order of StrongIds;            *)
(* heap.dtor_log holds the nodes whose "NodeWeak destroyed" line the last  *)
(* scope exit printed, in the order of the lines.                          *)
(***************************************************************************)

(* One local shared_ptr is destroyed at the end of the block. *)
ScopeRelease(st, h) ==
    LET s  == ext[h].cb
        hp == IF s = Empty THEN st.hp ELSE ReleaseStrong(st.hp, s)
    IN  [hp  |-> hp,
         log |-> IF s # Empty /\ hp.destroyed[s] > st.hp.destroyed[s]
                 THEN Append(st.log, s)
                 ELSE st.log]

(* The locals are destroyed one after the other, in the given order. *)
RECURSIVE ScopeReleaseAll(_, _)
ScopeReleaseAll(st, order) ==
    IF order = <<>> THEN st
    ELSE ScopeReleaseAll(ScopeRelease(st, Head(order)), Tail(order))

(* The end of a block whose locals are the handles in order. *)
ScopeExit(order) ==
    /\ \E h \in StrongIds : ext[h].cb # Empty
    /\ LET st == ScopeReleaseAll([hp |-> heap, log |-> <<>>], order)
       IN  heap' = [st.hp EXCEPT !.dtor_log = st.log]
    /\ ext' = [h \in StrongIds |-> EmptyHandle]
    /\ lastCall' = Call("close_scope", 0, 0)
    /\ UNCHANGED <<weak, linked, threads, appVars>>

(* A block that destroys its locals in the order of their declaration. *)
CloseScopeForward == ScopeExit([i \in 1..MaxStrong |-> i])

(* The closing brace of the block: the locals are destroyed in the reverse  *)
(* order of their declaration.                                              *)
CloseScope == ScopeExit([i \in 1..MaxStrong |-> MaxStrong + 1 - i])

NextScope ==
    \/ \E h \in StrongIds, v \in NodeValues("NodeWeak") : MakeNode(h, "NodeWeak", v)
    \/ \E g, h \in StrongIds : LinkWeak(g, h)
    \/ \E g, h \in StrongIds : Copy(g, h)
    \/ \E h \in StrongIds : Reset(h)
    \/ CloseScope

SpecScope == Init /\ [][NextScope]_vars

(* The shared_ptr variable of node s that is declared first: at the end of  *)
(* the block it is the last one released.                                   *)
FirstDeclared(s) == CHOOSE h \in LiveHandles(s) : \A g \in LiveHandles(s) : h <= g

(* The nodes a step destroys. *)
DestroyedBy(hp0, hp1) == {s \in Slots : hp1.destroyed[s] > hp0.destroyed[s]}

(* The elements of a sequence. *)
Range(q) == {q[i] : i \in DOMAIN q}

(* C18, the step part: a node is destroyed in the very step that releases   *)
(* its last shared_ptr, and that step destroys no other node; the end of a  *)
(* block destroys the nodes its locals still own, the node whose first      *)
(* declared variable comes later going first; no other statement destroys   *)
(* a node.                                                                  *)
C18_DestructionStep ==
    /\ lastCall'.op = "reset" =>
           \A s \in Slots :
               (s \in DestroyedBy(heap, heap'))
                   <=> (ext[lastCall'.a].cb = s /\ LiveHandles(s) = {lastCall'.a})
    /\ lastCall'.op = "close_scope" =>
           LET log == heap'.dtor_log
           IN  /\ Range(log) = {s \in Slots : LiveHandles(s) # {}}
               /\ DestroyedBy(heap, heap') = Range(log)
               /\ \A i, j \in DOMAIN log :
                      i < j => FirstDeclared(log[i]) > FirstDeclared(log[j])
    /\ lastCall'.op \notin {"reset", "close_scope"} => DestroyedBy(heap, heap') = {}

(* C18, the state part: a node is destroyed at most once, and a node that   *)
(* still has a shared_ptr is not destroyed, whatever happened to the node   *)
(* it is linked with.                                                       *)
C18_LinkedNodeIndependent ==
    \A s \in Slots :
        /\ heap.destroyed[s] <= 1
        /\ LiveHandles(s) # {} => heap.destroyed[s] = 0

(* C18: weak-linked nodes are destroyed in the order in which their last    *)
(* shared_ptr is released (at the end of cycleDemo's block b before a), and *)
(* destroying one node never destroys the other.                            *)
C18_DestroyedInReleaseOrder == [][C18_DestructionStep]_vars /\ []C18_LinkedNodeIndependent

(* C18 witness: a (made first) and b are linked to each other, the          *)
(* block has just ended and b was destroyed before a.                       *)
C18_Witness ==
    /\ lastCall.op = "close_scope"
    /\ \E a, b \in Slots :
           /\ a < b
           /\ WeakLinkedPair(a, b)
           /\ heap.dtor_log = <<b, a>>
           /\ heap.destroyed[a] = 1 /\ heap.destroyed[b] = 1

(* C18 witness for the single release: b's last shared_ptr was reset, b is  *)
(* destroyed and the node a it is linked with is alive.                     *)
C18_OneDestroyed ==
    /\ lastCall.op = "reset"
    /\ \E a, b \in Slots :
           /\ WeakLinkedPair(a, b)
           /\ heap.destroyed[b] = 1 /\ heap.destroyed[a] = 0
           /\ LiveHandles(a) # {}

=============================================================================
